---- MODULE Spec2Model ----
(***************************************************************************)
(* Model of the Drive MCP server (drive_web_mcp_server.py): the OAuth      *)
(* authorization endpoints, the credential store, get_drive_service and    *)
(* the two MCP tools; and of the tool-calling loop of the client           *)
(* (mcp_client.py, GeminiMCPClient.query).                                 *)
(*                                                                         *)
(* Scheduling.  Every handler is an `async def` that runs on the single    *)
(* asyncio event loop started by uvicorn.run.  A handler keeps the loop    *)
(* until it reaches an await that suspends.  No handler of this file       *)
(* contains such an await: Flow.fetch_token, .execute() and creds.refresh  *)
(* are blocking calls, and `await get_drive_service(...)` awaits a         *)
(* coroutine that never suspends.  The variable `running` is the request   *)
(* whose handler holds the event loop; a handler starts only when the loop *)
(* is free.                                                                *)
(***************************************************************************)
EXTENDS Naturals, FiniteSets, Sequences, TLC

\* ------------------------------------------------------------------ bounds
MaxFlows == 2      \* authorization flows (uuid4 states) issued in one run
MaxTokens == 2     \* access tokens the token endpoint issues in one run
MaxTurns == 3      \* completions the model is asked for in one query: the
                   \* last of them requests no tool

\* ------------------------------------------------------------ value spaces
ClientIds == {"c1", "c2"}
NoClient == ""                 \* absent query parameter / absent header
Users == {"alice", "bob"}      \* e-mail addresses the identity endpoint returns
Reqs == {"r1", "r2"}           \* the requests the server holds at once
Idle == "idle"                 \* `running` when the event loop is free
Tools == {"search_drive_files", "check_authentication_status"}   \* @mcp.tool()
Forged == 0                    \* a state value that uuid4 never produced
NoRefresh == 0                 \* credentials.refresh_token is None
NoToken == 0

SCOPES == "SCOPES"
TOKEN_URI == "token_uri"
APP_ID == "app_client_id"
APP_SECRET == "app_client_secret"

\* The name Request: imported from google.auth.transport.requests and then
\* rebound by `from fastapi import ..., Request, ...`.
RequestFromGoogleAuth == "google.auth.transport.requests.Request"
RequestFromFastAPI == "fastapi.Request"
Request == RequestFromFastAPI

\* Request() with no argument: fastapi's Request needs `scope`, so the call
\* raises TypeError before creds.refresh is entered; google-auth's Request
\* takes none.
RequestCtorRaises == Request = RequestFromFastAPI

VARIABLES
    credentials_store,   \* {client_id: credential record}
    oauth_states,        \* {state: client_id}
    req,                 \* the handlers in progress, one record per slot
    running,             \* the request holding the event loop, or Idle
    response,            \* the request answered last, with its response
    nextState,           \* the next uuid4 state
    nextToken,           \* the next access token the token endpoint issues
    expiredTokens,       \* access tokens whose lifetime has passed
    issued,              \* history: state -> client_id that asked /authorize
    completed,           \* history: states whose callback stored credentials
    consumed,            \* history: states a callback has matched
    refreshed,           \* history: access token -> successful refreshes of it
    entered,             \* history: access token -> calls that entered the
                         \* refresh branch with it, counted up to 2
    qpc,                 \* GeminiMCPClient.query: where the coroutine is
    contents,            \* its list of types.Content, the conversation
    gemini_response,     \* its `response`, the completion being processed
    final_text_parts,    \* its list of accumulated text
    returned,            \* what the call returned or raised
    responses,           \* history: every completion the model returned
    requested,           \* history: len(contents) at each _query_model call
    dispatched           \* history: every session.call_tool call, with its outcome

drive == <<credentials_store, oauth_states, req, running, response, nextState,
           nextToken, expiredTokens, issued, completed, consumed, refreshed,
           entered>>
mcp_client == <<qpc, contents, gemini_response, final_text_parts, returned, responses,
                requested, dispatched>>
vars == <<drive, mcp_client>>

server == <<credentials_store, oauth_states>>
history == <<issued, completed, consumed, refreshed, entered>>

NoRecord == [token |-> NoToken, refresh_token |-> NoRefresh, token_uri |-> "",
             client_id |-> "", client_secret |-> "", scopes |-> ""]
NoResult == [status |-> 0, kind |-> "none", arg |-> ""]
Response(status, kind, arg) == [status |-> status, kind |-> kind, arg |-> arg]
ToolText(kind, arg) == [status |-> 0, kind |-> kind, arg |-> arg]

\* A request slot: the request (kind, client, state), the handler's position
\* and locals (cid is oauth2callback's client_id, creds_data and creds_token
\* are the credential dict and creds.token), and what the handler has done
\* (network calls, refresh calls, what files().list(...).execute() gave, the
\* exception raised, the response).
IdleReq == [kind |-> "idle", pc |-> "idle", client |-> NoClient, state |-> Forged,
            cid |-> NoClient, creds_data |-> NoRecord, creds_token |-> NoToken,
            seen_expired |-> FALSE, upstream |-> "",
            net |-> 0, refresh_calls |-> 0, exc |-> "", result |-> NoResult]

\* A request as it reaches its handler.
Arrives(kind, client, state) ==
    [IdleReq EXCEPT !.kind = kind, !.pc = "start", !.client = client, !.state = state]

\* The handler of q has returned or raised: its locals are gone.
Done(q, exc, result) ==
    [IdleReq EXCEPT !.kind = q.kind, !.pc = "done", !.client = q.client,
                    !.state = q.state, !.net = q.net, !.upstream = q.upstream,
                    !.refresh_calls = q.refresh_calls,
                    !.exc = exc, !.result = result]

\* What query has returned: a string, which is the joined text (form "text",
\* parts) or the error message (form "Error executing tool", tool, detail),
\* or an exception (how "raise", form its class).
NoReturn == [how |-> "none", form |-> "", tool |-> "", detail |-> "", parts |-> <<>>]

\* ----------------------------------------------------------- dict helpers
Put(d, k, v) == [x \in (DOMAIN d) \cup {k} |-> IF x = k THEN v ELSE d[x]]
Pop(d, k) == [x \in (DOMAIN d) \ {k} |-> d[x]]
Empty == [x \in {} |-> NoClient]

Init ==
    /\ credentials_store = [x \in {} |-> NoRecord]
    /\ oauth_states = Empty
    /\ req = [r \in Reqs |-> IdleReq]
    /\ running = Idle
    /\ response = IdleReq
    /\ nextState = 1
    /\ nextToken = 1
    /\ expiredTokens = {}
    /\ issued = Empty
    /\ completed = {}
    /\ consumed = {}
    /\ refreshed = [t \in 1..MaxTokens |-> 0]
    /\ entered = [t \in 1..MaxTokens |-> 0]
    /\ qpc = "idle"
    /\ contents = <<>>
    /\ gemini_response = <<>>
    /\ final_text_parts = <<>>
    /\ returned = NoReturn
    /\ responses = <<>>
    /\ requested = <<>>
    /\ dispatched = <<>>

\* ------------------------------------------------------------- scheduling
\* Mutant: the identity lookup of the callback is awaited.
AwaitedUserinfo(pc) == pc = "userinfo"

\* What the call at a handler position does to the event loop: FALSE, the
\* call blocks and the handler keeps the loop; TRUE, it is awaited and other
\* handlers run before it returns.
Awaited(pc) == FALSE

\* A handler starts in slot r: the slot and the event loop are free.
Starts(r) ==
    /\ req[r].pc = "idle"
    /\ running = Idle

\* The handler of r takes its next step: it holds the loop, or it was
\* suspended in an await and the loop is free.
Resumes(r, at) ==
    /\ req[r].pc = at
    /\ \/ running = r
       \/ running = Idle /\ Awaited(at)

\* A step of the handler in slot r leaves it as q.  A handler that is done
\* answers and frees its slot; the loop is kept unless the handler is done or
\* waits in an await.  The client's query is another process: no handler
\* touches its variables.
Step(r, q) ==
    /\ req' = [req EXCEPT ![r] = IF q.pc = "done" THEN IdleReq ELSE q]
    /\ response' = IF q.pc = "done" THEN q ELSE response
    /\ running' = IF q.pc = "done" \/ Awaited(q.pc) THEN Idle ELSE r
    /\ UNCHANGED mcp_client

\* ------------------------------------------------------------ /authorize
\* Mutant: the empty client_id is accepted.
get_client_id_from_requestUnchecked(client_id) == [ok |-> TRUE, client_id |-> client_id]

\* get_client_id_from_request: the client_id query parameter, 400 if empty.
get_client_id_from_request(client_id) ==
    IF client_id = NoClient
    THEN [ok |-> FALSE, client_id |-> NoClient]
    ELSE [ok |-> TRUE, client_id |-> client_id]

\* Mutant: one client_id is stored for every flow.
AuthorizeStoredClientFixed(client_id) == "c1"

\* The client_id that authorize stores under the new state.
AuthorizeStoredClient(client_id) == get_client_id_from_request(client_id).client_id

authorize(r) ==
    /\ Starts(r)
    /\ \E client_id \in ClientIds \cup {NoClient} :
       LET q == Arrives("authorize", client_id, Forged)
       IN IF ~get_client_id_from_request(client_id).ok
          THEN /\ Step(r, Done(q, "HTTPException",
                     Response(400, "client_id query parameter is required for authorization", "")))
               /\ UNCHANGED <<oauth_states, nextState, issued>>
          ELSE /\ nextState <= MaxFlows
               /\ oauth_states' = Put(oauth_states, nextState, AuthorizeStoredClient(client_id))
               /\ issued' = Put(issued, nextState, client_id)
               /\ nextState' = nextState + 1
               /\ Step(r, Done([q EXCEPT !.state = nextState], "",
                               Response(307, "RedirectResponse", "")))
    /\ UNCHANGED <<credentials_store, nextToken, expiredTokens, completed, consumed,
                   refreshed, entered>>

\* -------------------------------------------------------- /oauth2callback
\* `except Exception as e: raise HTTPException(status_code=500, ...)`: every
\* exception raised in the try block, the handler's own HTTPException(400)
\* included, leaves the endpoint as a 500 whose detail quotes it.
CallbackExcept(detail) == Response(500, "Authentication error", detail)

\* Mutant: the state is looked up and left in the tracker.
TrackerAfterLookupKeeps(states, state) == states

\* oauth_states after the handler has looked the state up.
TrackerAfterLookup(states, state) == Pop(states, state)

\* Mutant: the record is stored under the client_id the request carries.
CallbackStoreKeyFromRequest(q) == q.client

\* The key the credential record is stored under.
CallbackStoreKey(q) == q.cid

\* The record built from flow.credentials.
CredentialRecord(token, refresh_token) ==
    [token |-> token, refresh_token |-> refresh_token, token_uri |-> TOKEN_URI,
     client_id |-> APP_ID, client_secret |-> APP_SECRET, scopes |-> SCOPES]

\* Mutant: the state is checked against every state ever issued.
StateIsPendingOnceIssued(states, state) == state \in DOMAIN issued

\* `state not in oauth_states` negated.
StateIsPending(states, state) == state \in DOMAIN states

\* State check and pop.  oauth_states.pop(state) raises KeyError for a state
\* the dict does not hold.  The request carries the state and, as any request
\* may, a client_id of the caller's choosing.
oauth2callback(r) ==
    /\ Starts(r)
    /\ \E state \in (1..(nextState - 1)) \cup {Forged} :
       \E client_id \in ClientIds :
       LET q == Arrives("oauth2callback", client_id, state)
       IN IF ~StateIsPending(oauth_states, state)
          THEN /\ Step(r, Done(q, "InvalidState",
                               CallbackExcept("400: Invalid state parameter")))
               /\ UNCHANGED <<oauth_states, consumed>>
          ELSE IF state \notin DOMAIN oauth_states
          THEN /\ Step(r, Done(q, "KeyError", CallbackExcept("KeyError")))
               /\ UNCHANGED <<oauth_states, consumed>>
          ELSE /\ oauth_states' = TrackerAfterLookup(oauth_states, state)
               /\ consumed' = consumed \cup {state}
               /\ Step(r, [q EXCEPT !.pc = "fetch_token", !.cid = oauth_states[state]])
    /\ UNCHANGED <<credentials_store, nextState, nextToken, expiredTokens, issued,
                   completed, refreshed, entered>>

\* Mutant: a callback that fails puts its state back for a retry.
TrackerAfterFailureRestores(states, q) == Put(states, q.state, q.cid)

\* oauth_states after the except clause: it re-raises and assigns nothing,
\* the state popped at the lookup stays out.
TrackerAfterFailure(states, q) == states

\* flow.fetch_token(code=code): the token endpoint issues the credentials or
\* refuses the code.
oauth2callback_fetch_token(r) ==
    /\ Resumes(r, "fetch_token")
    /\ \E ok \in BOOLEAN :
       \E refresh_token \in {NoRefresh, nextToken} :
          IF ok
          THEN /\ nextToken <= MaxTokens
               /\ nextToken' = nextToken + 1
               /\ Step(r, [req[r] EXCEPT !.pc = "userinfo", !.net = 1,
                              !.creds_data = CredentialRecord(nextToken, refresh_token)])
               /\ UNCHANGED oauth_states
          ELSE /\ refresh_token = NoRefresh
               /\ Step(r, Done([req[r] EXCEPT !.net = 1], "UpstreamAuthError",
                               CallbackExcept("fetch_token")))
               /\ oauth_states' = TrackerAfterFailure(oauth_states, req[r])
               /\ UNCHANGED nextToken
    /\ UNCHANGED <<credentials_store, nextState, expiredTokens, history>>

\* Mutant: the record is stored before the e-mail is checked.
CallbackStoresBeforeEmailCheck(outcome) == outcome # "raises"

\* Whether the handler reaches `credentials_store[client_id] = {...}`: the
\* write follows the userinfo call and the `if not user_id` check.
CallbackStores(outcome) == outcome = "ok"

\* userinfo().get().execute(), the e-mail check and the store write.
oauth2callback_userinfo(r) ==
    /\ Resumes(r, "userinfo")
    /\ \E outcome \in {"ok", "raises", "no email"} :
       \E user \in Users :
       LET q == [req[r] EXCEPT !.net = 2]
       IN /\ credentials_store' = IF CallbackStores(outcome)
                                  THEN Put(credentials_store, CallbackStoreKey(q),
                                           q.creds_data)
                                  ELSE credentials_store
          /\ IF outcome = "ok"
             THEN /\ completed' = completed \cup {q.state}
                  /\ Step(r, Done(q, "",
                                  Response(200, "Authentication successful for user", user)))
                  /\ UNCHANGED oauth_states
             ELSE /\ user = "alice"
                  /\ Step(r, Done(q, IF outcome = "no email" THEN "MissingIdentity"
                                     ELSE "UpstreamAuthError",
                                  IF outcome = "no email"
                                  THEN CallbackExcept("400: Could not retrieve user email")
                                  ELSE CallbackExcept("userinfo")))
                  /\ oauth_states' = TrackerAfterFailure(oauth_states, q)
                  /\ UNCHANGED completed
    /\ UNCHANGED <<nextState, nextToken, expiredTokens, issued, consumed,
                   refreshed, entered>>

\* ------------------------------------------- check_authentication_status
\* Mutant: a header is taken to be present on every call.
HeaderMissingNever(client_id) == FALSE

\* `if not client_id` on request.headers.get("X-Client-ID", "").
HeaderMissing(client_id) == client_id = NoClient

\* Mutant: a record whose access token has expired does not count.
AuthenticationStatusValid(store, client_id) ==
    IF client_id \in DOMAIN store /\ store[client_id].token \notin expiredTokens
    THEN ToolText("authenticated", "")
    ELSE ToolText("not authenticated", "")

\* `is_authenticated = client_id in credentials_store` and the two returns.
AuthenticationStatus(store, client_id) ==
    IF client_id \in DOMAIN store
    THEN ToolText("authenticated", "")
    ELSE ToolText("not authenticated", "")

check_authentication_status(r) ==
    /\ Starts(r)
    /\ \E client_id \in ClientIds \cup {NoClient} :
       Step(r, Done(Arrives("check_authentication_status", client_id, Forged), "",
                 IF HeaderMissing(client_id)
                 THEN ToolText("No X-Client-ID header provided for authentication check.", "")
                 ELSE AuthenticationStatus(credentials_store, client_id)))
    /\ UNCHANGED <<server, nextState, nextToken, expiredTokens, history>>

\* ----------------------------------- search_drive_files, get_drive_service
\* Mutant: the presence check is left out.
HasCredentialsUnchecked(store, client_id) == TRUE

\* `client_id not in credentials_store` negated.
HasCredentials(store, client_id) == client_id \in DOMAIN store

\* Mutant: the refresh token is not tested.
NeedsRefreshWhenExpired(expired, refresh_token) == expired

\* `creds.expired and creds.refresh_token`.  The record holds no expiry: the
\* answer of creds.expired is the library's, here the token's lifetime.
NeedsRefresh(expired, refresh_token) == expired /\ refresh_token # NoRefresh

\* get_drive_service up to the Credentials object.
get_drive_service_lookup(store, client_id) ==
    IF client_id = NoClient
    THEN [exc |-> "ValueError", detail |-> "No client_id provided", creds_data |-> NoRecord]
    ELSE IF ~HasCredentials(store, client_id)
    THEN [exc |-> "ValueError", detail |-> "No credentials found for client_id",
          creds_data |-> NoRecord]
    ELSE IF client_id \notin DOMAIN store
    THEN [exc |-> "KeyError", detail |-> "client_id", creds_data |-> NoRecord]
    ELSE [exc |-> "", detail |-> "", creds_data |-> store[client_id]]

\* `except Exception as e: return f"Error searching files: {str(e)}"`.
SearchExcept(detail) == ToolText("Error searching files", detail)

\* Mutant: the exception is swallowed and the service is built all the same.
PcAfterRefreshExceptionSwallowed == "list"

\* Where an exception raised by the refresh call leaves the tool: it leaves
\* get_drive_service and is caught by search_drive_files' except clause.
PcAfterRefreshException == "done"

\* The slot after the refresh call raised exc.
RefreshRaised(q, exc) ==
    IF PcAfterRefreshException = "done"
    THEN Done(q, exc, SearchExcept(exc))
    ELSE [q EXCEPT !.pc = PcAfterRefreshException, !.exc = exc]

\* Header check, then get_drive_service up to the expiry test.
search_drive_files(r) ==
    /\ Starts(r)
    /\ \E client_id \in ClientIds \cup {NoClient} :
       LET q == Arrives("search_drive_files", client_id, Forged)
           got == get_drive_service_lookup(credentials_store, client_id)
           expired == got.creds_data.token \in expiredTokens
       IN IF HeaderMissing(client_id)
          THEN Step(r, Done(q, "", ToolText("No client_id provided for authentication.", "")))
          ELSE IF got.exc # ""
          THEN Step(r, Done(q, got.exc, SearchExcept(got.detail)))
          ELSE Step(r, [q EXCEPT !.pc = IF NeedsRefresh(expired, got.creds_data.refresh_token)
                                        THEN "refresh" ELSE "list",
                                 !.creds_data = got.creds_data,
                                 !.creds_token = got.creds_data.token,
                                 !.seen_expired = expired])
    /\ UNCHANGED <<server, nextState, nextToken, expiredTokens, history>>

\* Mutant: a record whose refresh failed is dropped from the store.
StoreAfterRefreshRaisedEvicts(store, client_id) == Pop(store, client_id)

\* credentials_store after the refresh call raised: the write-back is
\* skipped and nothing else assigns to the store.
StoreAfterRefreshRaised(store, client_id) == store

\* The refresh branch of get_drive_service: Request() is evaluated, then
\* creds.refresh is called and the new token written back to the store.
get_drive_service_refresh(r) ==
    /\ Resumes(r, "refresh")
    /\ entered' = [entered EXCEPT ![req[r].creds_token] = IF @ < 2 THEN @ + 1 ELSE @]
    /\ LET q == [req[r] EXCEPT !.refresh_calls = @ + 1]
       IN IF RequestCtorRaises
          THEN /\ Step(r, RefreshRaised(q, "TypeError"))
               /\ credentials_store' = StoreAfterRefreshRaised(credentials_store, q.client)
               /\ UNCHANGED <<nextToken, refreshed>>
          ELSE \E ok \in BOOLEAN :
                  IF ok
                  THEN /\ nextToken <= MaxTokens
                       /\ credentials_store' =
                              Put(credentials_store, q.client,
                                  [q.creds_data EXCEPT !.token = nextToken])
                       /\ nextToken' = nextToken + 1
                       /\ refreshed' = [refreshed EXCEPT ![q.creds_data.token] = @ + 1]
                       /\ Step(r, [q EXCEPT !.pc = "list", !.creds_token = nextToken,
                                            !.net = @ + 1])
                  ELSE /\ Step(r, RefreshRaised([q EXCEPT !.net = @ + 1], "RefreshError"))
                       /\ credentials_store' =
                              StoreAfterRefreshRaised(credentials_store, q.client)
                       /\ UNCHANGED <<nextToken, refreshed>>
    /\ UNCHANGED <<oauth_states, nextState, expiredTokens, issued, completed, consumed>>

\* Mutant: the `if not items` test is left out.
FormatResultsNoEmptyCheck(outcome) ==
    CASE outcome = "empty" -> ToolText("Files found:", "")
      [] outcome = "files" -> ToolText("Files found:", "listing")
      [] OTHER -> SearchExcept("HttpError")

\* What the tool returns for the outcome of files().list(...).execute(): the
\* fixed sentence for an empty `files`, the listing, or the except clause's
\* string when the call raised.
FormatResults(outcome) ==
    CASE outcome = "empty" -> ToolText("No files found matching your query.", "")
      [] outcome = "files" -> ToolText("Files found:", "listing")
      [] OTHER -> SearchExcept("HttpError")

\* get_drive_service has returned build("drive", "v3", credentials=creds):
\* files().list(...).execute() and the formatting of the result.  An expired
\* token that cannot be refreshed is refused by the API.
search_drive_files_list(r) ==
    /\ Resumes(r, "list")
    /\ \E outcome \in {"empty", "files", "raises"} :
          /\ (req[r].creds_token \in expiredTokens
                /\ req[r].creds_data.refresh_token = NoRefresh) => outcome = "raises"
          /\ Step(r, Done([req[r] EXCEPT !.net = @ + 1, !.upstream = outcome],
                       IF outcome = "raises" THEN "HttpError" ELSE "",
                       FormatResults(outcome)))
    /\ UNCHANGED <<server, nextState, nextToken, expiredTokens, history>>

\* ------------------------------------------------------------ environment
\* The lifetime of an access token held in the store passes.
TokenExpires ==
    /\ \E c \in DOMAIN credentials_store :
          /\ credentials_store[c].token \notin expiredTokens
          /\ expiredTokens' = expiredTokens \cup {credentials_store[c].token}
    /\ UNCHANGED <<server, req, running, response, nextState, nextToken, history>>
    /\ UNCHANGED mcp_client

Next ==
    \/ \E r \in Reqs : authorize(r)
    \/ \E r \in Reqs : oauth2callback(r)
    \/ \E r \in Reqs : oauth2callback_fetch_token(r)
    \/ \E r \in Reqs : oauth2callback_userinfo(r)
    \/ \E r \in Reqs : check_authentication_status(r)
    \/ \E r \in Reqs : search_drive_files(r)
    \/ \E r \in Reqs : get_drive_service_refresh(r)
    \/ \E r \in Reqs : search_drive_files_list(r)
    \/ TokenExpires

Spec == Init /\ [][Next]_vars

\* ------------------------------------------------- GeminiMCPClient.query
\* Parts of a types.Content: text, a function call, a function response.
Text(t) == [type |-> "text", text |-> t, name |-> ""]
FunctionCall(name) == [type |-> "function_call", text |-> "", name |-> name]
FunctionResponse(name) == [type |-> "function_response", text |-> "", name |-> name]

\* types.Content(role=role, parts=[part]).
Content(role, part) == [role |-> role, part |-> part]

\* The parts of response.candidates[0].content that the model may answer
\* with: nothing (no candidate, or no part), text only, a function call
\* only, text before a call, text after a call, two calls, text on both
\* sides of a call.
ModelResponses ==
    { <<>>,
      <<Text("a")>>,
      <<Text("a"), Text("b")>>,
      <<FunctionCall("search_drive_files")>>,
      <<Text("a"), FunctionCall("search_drive_files")>>,
      <<FunctionCall("check_authentication_status"), Text("b")>>,
      <<FunctionCall("search_drive_files"), FunctionCall("check_authentication_status")>>,
      <<Text("a"), FunctionCall("check_authentication_status"), Text("b")>> }

HasFunctionCall(parts) == \E i \in 1..Len(parts) : parts[i].type = "function_call"

\* The completions _query_model may return at the n-th request of a query:
\* the model stops asking for tools at the MaxTurns-th.
query_model(n) ==
    IF n < MaxTurns THEN ModelResponses
    ELSE {parts \in ModelResponses : ~HasFunctionCall(parts)}

\* The index of the part at which `for part in content.parts` meets its
\* first function call, where it leaves the loop with `break`.
FirstCallIndex(parts) ==
    CHOOSE i \in 1..Len(parts) :
        /\ parts[i].type = "function_call"
        /\ \A j \in 1..(i - 1) : parts[j].type # "function_call"

\* Mutant: the last function call of the response is the one dispatched.
DispatchedPartLast(parts) ==
    parts[CHOOSE i \in 1..Len(parts) :
              /\ parts[i].type = "function_call"
              /\ \A j \in (i + 1)..Len(parts) : parts[j].type # "function_call"]

\* The part whose function call is dispatched.
DispatchedPart(parts) == parts[FirstCallIndex(parts)]

\* The text parts of a sequence of parts, in order.
RECURSIVE TextsOf(_)
TextsOf(parts) ==
    IF parts = <<>> THEN <<>>
    ELSE (IF Head(parts).type = "text" THEN <<Head(parts).text>> ELSE <<>>)
         \o TextsOf(Tail(parts))

\* What one pass of the for loop appends to final_text_parts: the text of
\* the parts it visits, which are those before the first function call.
AccumulatedText(parts) ==
    IF HasFunctionCall(parts)
    THEN TextsOf(SubSeq(parts, 1, FirstCallIndex(parts) - 1))
    ELSE TextsOf(parts)

\* sep.join(list).
RECURSIVE Join(_, _)
Join(sep, list) ==
    IF Len(list) <= 1 THEN list
    ELSE <<Head(list), sep>> \o Join(sep, Tail(list))

\* Mutant: the loop gives up after one tool call.
WhileConditionCapped(parts) == Len(parts) > 0 /\ Len(dispatched) < 1

\* `while response.candidates and response.candidates[0].content.parts`.
WhileCondition(parts) == Len(parts) > 0

\* Mutant: the model's call is appended before the tool is called.
HistoryAfterDispatchEager(history_so_far, part, tool_returns) ==
    IF tool_returns
    THEN history_so_far \o <<Content("model", part),
                              Content("user", FunctionResponse(part.name))>>
    ELSE history_so_far \o <<Content("model", part)>>

\* contents after session.call_tool: the two appends follow the call, so
\* they are skipped when it raises.
HistoryAfterDispatch(history_so_far, part, tool_returns) ==
    IF tool_returns
    THEN history_so_far \o <<Content("model", part),
                              Content("user", FunctionResponse(part.name))>>
    ELSE history_so_far

\* `return "\n".join(final_text_parts)`.
ReturnsText(parts) ==
    [how |-> "return", form |-> "text", tool |-> "", detail |-> "",
     parts |-> Join("\n", parts)]

\* `return f"Error executing tool {tool_name}: {e}"`.
ReturnsError(tool_name, e) ==
    [how |-> "return", form |-> "Error executing tool", tool |-> tool_name,
     detail |-> e, parts |-> <<>>]

\* An exception leaves query.
Raises(e) == [how |-> "raise", form |-> e, tool |-> "", detail |-> "", parts |-> <<>>]

\* query up to the while loop: the session check, the seeded contents and
\* the first completion request, which is outside any try.
query ==
    /\ qpc = "idle"
    /\ \E session \in BOOLEAN :
       \E model_raises \in BOOLEAN :
       \E answer \in query_model(1) :
          IF ~session
          THEN /\ ~model_raises /\ answer = <<>>
               /\ qpc' = "raised"
               /\ returned' = Raises("ConnectionError")
               /\ UNCHANGED <<contents, gemini_response, responses, requested>>
          ELSE /\ contents' = <<Content("user", Text("query"))>>
               /\ requested' = <<Len(contents')>>
               /\ IF model_raises
                  THEN /\ answer = <<>>
                       /\ qpc' = "raised"
                       /\ returned' = Raises("APIError")
                       /\ UNCHANGED <<gemini_response, responses>>
                  ELSE /\ qpc' = "while"
                       /\ gemini_response' = answer
                       /\ responses' = <<answer>>
                       /\ UNCHANGED returned
    /\ UNCHANGED <<final_text_parts, dispatched, drive>>

\* The while test and one pass of the for loop, up to the await of
\* session.call_tool or to the return.
query_while ==
    /\ qpc = "while"
    /\ IF WhileCondition(gemini_response)
       THEN /\ final_text_parts' = final_text_parts \o AccumulatedText(gemini_response)
            /\ IF HasFunctionCall(gemini_response)
               THEN /\ qpc' = "call_tool"
                    /\ UNCHANGED returned
               ELSE /\ qpc' = "returned"
                    /\ returned' = ReturnsText(final_text_parts')
       ELSE /\ qpc' = "returned"
            /\ returned' = ReturnsText(final_text_parts)
            /\ UNCHANGED final_text_parts
    /\ UNCHANGED <<contents, gemini_response, responses, requested, dispatched, drive>>

\* session.call_tool has returned or raised: the two appends and the next
\* completion request, all inside the try whose except returns the error.
query_call_tool ==
    /\ qpc = "call_tool"
    /\ \E tool_returns \in BOOLEAN :
       \E model_raises \in BOOLEAN :
       \E answer \in query_model(Len(requested) + 1) :
       LET part == DispatchedPart(gemini_response)
       IN /\ dispatched' = Append(dispatched, [name |-> part.name,
                                                 returns |-> tool_returns])
          /\ contents' = HistoryAfterDispatch(contents, part, tool_returns)
          /\ IF ~tool_returns
             THEN /\ ~model_raises /\ answer = <<>>
                  /\ qpc' = "returned"
                  /\ returned' = ReturnsError(part.name, "McpError")
                  /\ UNCHANGED <<gemini_response, responses, requested>>
             ELSE /\ requested' = Append(requested, Len(contents'))
                  /\ IF model_raises
                     THEN /\ answer = <<>>
                          /\ qpc' = "returned"
                          /\ returned' = ReturnsError(part.name, "APIError")
                          /\ UNCHANGED <<gemini_response, responses>>
                     ELSE /\ qpc' = "while"
                          /\ gemini_response' = answer
                          /\ responses' = Append(responses, answer)
                          /\ UNCHANGED returned
    /\ UNCHANGED <<final_text_parts, drive>>

NextQuery ==
    \/ query
    \/ query_while
    \/ query_call_tool

SpecQuery == Init /\ [][NextQuery]_vars

\* The coroutine is run by asyncio.run and its calls return or raise: a step
\* that can be taken is taken.
FairSpecQuery == SpecQuery /\ WF_vars(NextQuery)

\* ================================================================= claims
Authenticated == ToolText("authenticated", "")
InvalidStateResponse == CallbackExcept("400: Invalid state parameter")
NotAuthenticatedText == ToolText("not authenticated", "")

\* A flow issued to c has been completed by a callback that stored credentials.
FlowCompletedFor(c) == \E s \in completed : issued[s] = c

\* C1: tenant isolation.  A client_id has a credential record, and
\* check_authentication_status answers "authenticated" for it, only if a
\* successful callback consumed a flow token that authorize issued to that
\* same client_id; a flow completed for c1 never authenticates c2.
C1_TenantIsolation ==
    /\ \A c \in DOMAIN credentials_store : FlowCompletedFor(c)
    /\ (response.kind = "check_authentication_status" /\ response.result = Authenticated)
          => FlowCompletedFor(response.client)

\* c1 has completed a flow and the status check for c2 has answered
\* "not authenticated".
C1_Witness ==
    /\ FlowCompletedFor("c1")
    /\ "c1" \in DOMAIN credentials_store
    /\ response.kind = "check_authentication_status"
    /\ response.client = "c2"
    /\ response.result = ToolText("not authenticated", "")

\* C2: one-time flow tokens.  A callback carrying a state that an earlier
\* callback has consumed, or that was never issued, is never accepted; every
\* rejected callback gets the same InvalidState response, whichever of the
\* two it carried, and changes neither oauth_states nor credentials_store.
C2_OneTimeTokens ==
    /\ [][\A r \in Reqs :
            (req[r].pc = "idle" /\ req'[r].pc = "fetch_token")
               => (req'[r].state \notin consumed /\ req'[r].state \in DOMAIN issued)]_vars
    /\ [][(response' # response /\ response'.kind = "oauth2callback"
             /\ response'.exc = "InvalidState")
            => /\ response'.result = InvalidStateResponse
               /\ response'.state \notin DOMAIN oauth_states
               /\ UNCHANGED server]_vars

\* A callback has been rejected for a state that a successful callback had
\* consumed before.
C2_Witness ==
    /\ response.kind = "oauth2callback"
    /\ response.exc = "InvalidState"
    /\ response.state \in completed

\* C3 (as claimed): a callback with an invalid or unknown state is answered
\* with status 400, and status 500 is answered only to upstream failures.
C3_InvalidStateIs400 ==
    response.kind = "oauth2callback"
       => /\ response.exc = "InvalidState" => response.result.status = 400
          /\ response.result.status = 500 => response.exc = "UpstreamAuthError"

\* C4 (as claimed): calls for one client that find the same expired token
\* refresh it at most once, and when two calls have entered the refresh
\* branch with the same token, one refresh of it has been written back for
\* the other to reuse.
C4_OneRefreshPerExpiry ==
    \A t \in 1..MaxTokens :
        /\ refreshed[t] <= 1
        /\ (entered[t] = 2 /\ \A r \in Reqs : req[r].pc = "idle") => refreshed[t] = 1

\* C5: the access token stored for a client never regresses: no step
\* replaces it by a token the token endpoint issued earlier.
C5_TokenNeverRegresses ==
    [][\A c \in DOMAIN credentials_store :
          c \in DOMAIN credentials_store'
             /\ credentials_store'[c].token >= credentials_store[c].token]_vars

\* A get_drive_service call for a client is in the refresh branch with the
\* expired token that an earlier call for the same client had found too,
\* after two callbacks have stored a token for that client.
C5_Witness ==
    \E r \in Reqs :
        /\ req[r].pc = "refresh"
        /\ response.kind = "search_drive_files"
        /\ response.client = req[r].client
        /\ response.refresh_calls = 1
        /\ entered[req[r].creds_token] = 1
        /\ Cardinality({s \in completed : issued[s] = req[r].client}) >= 2

\* C6 (as claimed): the refresh branch yields a new access token, hands out a
\* handle carrying it, and writes it into the client's record, leaving every
\* other field of the record as it was.
C6_RefreshUpdatesToken ==
    [][\A r \in Reqs :
          (req[r].pc = "refresh" /\ req'[r] # req[r])
             => /\ req'[r].pc = "list"
                /\ req'[r].creds_token # req[r].creds_token
                /\ req'[r].creds_token \notin expiredTokens
                /\ credentials_store' =
                       Put(credentials_store, req[r].client,
                           [credentials_store[req[r].client]
                               EXCEPT !.token = req'[r].creds_token])]_vars

NotAuthenticated == SearchExcept("No credentials found for client_id")

\* C7: get_drive_service for a client_id that has no record fails with the
\* "No credentials found" ValueError before any network or refresh call and
\* leaves the store unchanged; for an empty client_id it fails with the
\* "No client_id provided" ValueError whatever the store holds.
C7_NoRecordFailsEarly ==
    /\ [](/\ get_drive_service_lookup(credentials_store, NoClient).exc = "ValueError"
          /\ get_drive_service_lookup(credentials_store, NoClient).detail
                = "No client_id provided")
    /\ [][\A r \in Reqs : \A c \in ClientIds \ DOMAIN credentials_store :
            (req[r].pc = "idle" /\ req'[r] = req[r] /\ response' # response
               /\ response'.kind = "search_drive_files" /\ response'.client = c)
               => /\ response'.exc = "ValueError"
                  /\ response'.result = NotAuthenticated
                  /\ response'.net = 0
                  /\ response'.refresh_calls = 0
                  /\ UNCHANGED server]_vars

\* search_drive_files has answered a client that has no record with the
\* "No credentials found" error, without a network call.
C7_Witness ==
    /\ response.kind = "search_drive_files"
    /\ response.client \in ClientIds \ DOMAIN credentials_store
    /\ response.result = NotAuthenticated
    /\ response.net = 0

\* A get_drive_service call that found its client's record expired and
\* without a refresh token.
ExpiredNoRefresh(r) ==
    /\ req[r].kind = "search_drive_files"
    /\ req[r].seen_expired
    /\ req[r].creds_data.refresh_token = NoRefresh

\* C8 (as claimed): for a record that is expired and holds no refresh token
\* get_drive_service fails: it never returns a service handle.
C8_ExpiredNoRefreshFails ==
    \A r \in Reqs : ExpiredNoRefresh(r) => req[r].pc # "list"

\* C8 (amended): for a record that is expired and holds no refresh token
\* get_drive_service attempts no refresh, makes no network call and leaves
\* the record as it is, and it does not fail: it returns a service handle
\* that carries the expired token.
C8_ExpiredNoRefreshNotRenewed ==
    \A r \in Reqs :
        ExpiredNoRefresh(r)
           => /\ req[r].pc = "list"
              /\ req[r].exc = ""
              /\ req[r].refresh_calls = 0
              /\ req[r].net = 0
              /\ req[r].creds_token = req[r].creds_data.token
              /\ req[r].creds_token \in expiredTokens
              /\ credentials_store[req[r].client] = req[r].creds_data

\* get_drive_service has returned a handle for such a record.
C8_Witness ==
    \E r \in Reqs : ExpiredNoRefresh(r) /\ req[r].pc = "list"

\* C9: a refresh call that obtains no token ends the tool call at once: the
\* exception leaves get_drive_service after this one refresh call, the tool
\* answers with the error, and the store is as it was when the call read it.
C9_RefreshFailureLeavesStore ==
    [][\A r \in Reqs :
          (req[r].pc = "refresh" /\ req'[r] # req[r] /\ nextToken' = nextToken)
             => /\ req'[r].pc = "idle"
                /\ response'.kind = "search_drive_files"
                /\ response'.client = req[r].client
                /\ response'.exc \in {"TypeError", "RefreshError"}
                /\ response'.result = SearchExcept(response'.exc)
                /\ response'.refresh_calls = 1
                /\ response'.net <= 1
                /\ credentials_store' = credentials_store
                /\ credentials_store'[req[r].client] = req[r].creds_data]_vars

\* A tool call has failed in its refresh call, and the client's record is
\* still the expired one with its refresh token.
C9_Witness ==
    /\ response.kind = "search_drive_files"
    /\ response.exc = "TypeError"
    /\ response.refresh_calls = 1
    /\ response.client \in DOMAIN credentials_store
    /\ credentials_store[response.client].token \in expiredTokens
    /\ credentials_store[response.client].refresh_token # NoRefresh

C11_FailedCallbackLeavesStore ==
    [][\A r \in Reqs :
          /\ (req[r].pc \in {"fetch_token", "userinfo"} /\ req'[r].pc = "idle"
                 /\ response'.exc \in {"UpstreamAuthError", "MissingIdentity"})
             => credentials_store' = credentials_store
          /\ (req[r].pc = "fetch_token" /\ req'[r].pc = "userinfo")
             => credentials_store' = credentials_store]_vars

\* A callback got its token, found no e-mail and failed: the flow's client
\* has no record, while the other client holds one.
C11_Witness ==
    /\ response.kind = "oauth2callback"
    /\ response.exc = "MissingIdentity"
    /\ response.net = 2
    /\ issued[response.state] \notin DOMAIN credentials_store
    /\ DOMAIN credentials_store # {}

\* C12: /authorize with an empty or missing client_id answers 400 and leaves
\* the tracker (and the store) as they were; with a client_id it adds one
\* entry under a state that was never issued before, mapped to that
\* client_id, keeps every other entry and leaves the credential store alone.
C12_AuthorizeRecordsOneFreshState ==
    [][(response'.kind = "authorize" /\ response' # response) =>
          IF response'.client = NoClient
          THEN /\ response'.result.status = 400
               /\ response'.exc = "HTTPException"
               /\ UNCHANGED server
          ELSE /\ response'.result.status = 307
               /\ response'.state \notin DOMAIN oauth_states
               /\ response'.state \notin DOMAIN issued
               /\ oauth_states' = Put(oauth_states, response'.state, response'.client)
               /\ UNCHANGED credentials_store]_vars

\* A second flow was started for another client while the first is still
\* pending: the tracker holds both states.
C12_Witness ==
    /\ response.kind = "authorize"
    /\ response.result.status = 307
    /\ Cardinality(DOMAIN oauth_states) = 2
    /\ oauth_states[response.state] = response.client
    /\ \E s \in DOMAIN oauth_states : oauth_states[s] # response.client

\* C13: check_authentication_status called with an X-Client-ID answers
\* "authenticated" exactly when the store holds a record for that id and
\* "not authenticated" exactly when it holds none, whatever the state of the
\* record's token, and changes neither the store nor the tracker.
C13_StatusIsPresence ==
    [][(response'.kind = "check_authentication_status" /\ response' # response
          /\ response'.client # NoClient) =>
          /\ response'.result = Authenticated
                <=> response'.client \in DOMAIN credentials_store
          /\ response'.result = NotAuthenticatedText
                <=> response'.client \notin DOMAIN credentials_store
          /\ response'.exc = ""
          /\ UNCHANGED server]_vars

\* The tool answered "authenticated" for a client whose access token has
\* expired and whose record holds no refresh token.
C13_Witness ==
    /\ response.kind = "check_authentication_status"
    /\ response.result = Authenticated
    /\ response.client \in DOMAIN credentials_store
    /\ credentials_store[response.client].token \in expiredTokens
    /\ credentials_store[response.client].refresh_token = NoRefresh

\* A tool call that carried no X-Client-ID header has been answered.
AnsweredWithoutHeader(q) == q.kind \in Tools /\ q.client = NoClient

\* C14 as stated: without the header every tool returns the same message, so
\* two such calls answered one after the other carry equal results.
C14_SameMessageForEveryTool ==
    [][(AnsweredWithoutHeader(response) /\ AnsweredWithoutHeader(response'))
          => response'.result = response.result]_vars

\* C14: a tool call without the X-Client-ID header is answered with a text
\* result and no exception, the text being the tool's own: search_drive_files
\* returns "No client_id provided for authentication." and
\* check_authentication_status "No X-Client-ID header provided for
\* authentication check."; the call makes no upstream call and changes
\* neither the store nor the tracker.
C14_MissingHeaderIsText ==
    [][(AnsweredWithoutHeader(response') /\ response' # response) =>
          /\ response'.result =
                IF response'.kind = "search_drive_files"
                THEN ToolText("No client_id provided for authentication.", "")
                ELSE ToolText("No X-Client-ID header provided for authentication check.", "")
          /\ response'.exc = ""
          /\ response'.net = 0
          /\ response'.refresh_calls = 0
          /\ UNCHANGED <<server, nextToken>>]_vars

\* search_drive_files was called without the header while a client holds
\* credentials.
C14_Witness ==
    /\ response.kind = "search_drive_files"
    /\ response.client = NoClient
    /\ response.result.kind = "No client_id provided for authentication."
    /\ DOMAIN credentials_store # {}

\* What str(e) holds for the exception a search call ended with.
FailureDescription(exc) ==
    IF exc = "ValueError" THEN "No credentials found for client_id" ELSE exc

\* C15: search_drive_files always returns a text result: for an empty result
\* set exactly "No files found matching your query.", for a non-empty one
\* the listing, and when get_drive_service (no record, refresh failure) or
\* the Drive call raised, the string "Error searching files: ..." holding
\* the description of that failure.
C15_SearchReturnsText ==
    (response.kind = "search_drive_files" /\ response.client # NoClient) =>
       /\ response.result.status = 0
       /\ response.exc \in {"", "ValueError", "TypeError", "HttpError"}
       /\ (response.exc = "" /\ response.upstream = "empty")
             => response.result = ToolText("No files found matching your query.", "")
       /\ (response.exc = "" /\ response.upstream = "files")
             => response.result = ToolText("Files found:", "listing")
       /\ response.exc = "" => response.upstream \in {"empty", "files"}
       /\ response.exc # ""
             => response.result = ToolText("Error searching files",
                                           FailureDescription(response.exc))
       /\ response.exc = "HttpError" <=> response.upstream = "raises"

\* The Drive API returned no file for an authenticated client.
C15_Witness ==
    /\ response.kind = "search_drive_files"
    /\ response.client \in DOMAIN credentials_store
    /\ response.upstream = "empty"
    /\ response.result.kind = "No files found matching your query."

\* The text parts of every completion of the call, in the order received.
RECURSIVE AllTextOf(_)
AllTextOf(completions) ==
    IF completions = <<>> THEN <<>>
    ELSE TextsOf(Head(completions)) \o AllTextOf(Tail(completions))

\* C16 as stated: a query that returns its text returns the text parts of
\* all completions of the call joined in the order received, those that
\* share a completion with a function call included.
C16_ReturnsAllText ==
    (qpc = "returned" /\ returned.form = "text")
       => returned.parts = Join("\n", AllTextOf(responses))

\* C17: when session.call_tool raises, that step ends the query: it returns
\* the error string naming the tool that was called, requests no further
\* completion, leaves contents as it was, and nothing happens after the
\* return, so no further tool is called.
C17_ToolErrorEndsQuery ==
    /\ [][(qpc = "call_tool" /\ Len(dispatched') > Len(dispatched)
             /\ ~dispatched'[Len(dispatched')].returns) =>
             /\ qpc' = "returned"
             /\ returned' = ReturnsError(gemini_response[FirstCallIndex(gemini_response)].name,
                                         "McpError")
             /\ Len(dispatched') = Len(dispatched) + 1
             /\ dispatched'[Len(dispatched')].name = returned'.tool
             /\ contents' = contents
             /\ requested' = requested
             /\ responses' = responses]_vars
    /\ [][qpc # "returned"]_vars

\* The second tool call of a query raised after the first had returned and
\* text had been accumulated.
C17_Witness ==
    /\ qpc = "returned"
    /\ returned.form = "Error executing tool"
    /\ Len(dispatched) = 2
    /\ dispatched[1].returns /\ ~dispatched[2].returns
    /\ final_text_parts # <<>>
    /\ Len(contents) = 3
    /\ Len(requested) = 2

\* C18 as stated, for a client that is connected: no exception leaves query,
\* a failure of a completion request, the first included, is returned as a
\* string.
C18_QueryNeverRaises == returned.how = "raise" => returned.form = "ConnectionError"

\* C19: the loop has no cap.  It returns only at a completion that holds no
\* function call (or no part at all) or when a tool call or the completion
\* request after it raises; while the completion requests a tool and the
\* tool call and the next request succeed it goes round again, however many
\* rounds it has made.  A completion without a function call makes it
\* return, and with a model that stops asking for tools the query ends.
C19_EndsOnlyByModelOrError ==
    /\ [][(qpc = "while" /\ qpc' = "returned") => ~HasFunctionCall(gemini_response)]_vars
    /\ [][(qpc = "while" /\ HasFunctionCall(gemini_response)) => qpc' = "call_tool"]_vars
    /\ [][(qpc = "call_tool" /\ qpc' = "returned")
             => \/ ~dispatched'[Len(dispatched')].returns
                \/ Len(requested') > Len(responses')]_vars
    /\ [][(qpc = "call_tool" /\ Len(responses') > Len(responses)) => qpc' = "while"]_vars
    /\ (qpc = "while" /\ ~HasFunctionCall(gemini_response)) ~> (qpc = "returned")
    /\ <>(qpc \in {"returned", "raised"})

\* The model asked for a tool at every completion but the last one it was
\* asked for, every tool call returned, and the query then returned its text.
C19_Witness ==
    /\ qpc = "returned"
    /\ returned.form = "text"
    /\ Len(dispatched) = MaxTurns - 1
    /\ \A k \in 1..Len(dispatched) : dispatched[k].returns
    /\ Len(requested) = MaxTurns

\* The number of tool calls that returned, each followed by its two appends.
Appended == (Len(contents) - 1) \div 2

\* C20: contents starts as the one user turn and only grows, by the two turns
\* of a tool call that returned: the model's function call, then the tool's
\* result as a user turn.  The k-th tool call of a query is the first
\* function call of the k-th completion, so there is at most one per
\* completion, and the k-th follow-up request is made with 1 + 2k turns.
C20_OneDispatchTwoTurns ==
    /\ [](Len(contents) >= 1 => contents[1] = Content("user", Text("query")))
    /\ [](\A k \in 1..Len(requested) : requested[k] = 1 + 2 * (k - 1))
    /\ [](Len(dispatched) <= Len(responses))
    /\ [](\A k \in 1..Len(dispatched) :
             /\ HasFunctionCall(responses[k])
             /\ dispatched[k].name = responses[k][FirstCallIndex(responses[k])].name)
    /\ [](\A k \in 1..Appended :
             /\ contents[2 * k] =
                   Content("model", responses[k][FirstCallIndex(responses[k])])
             /\ contents[2 * k + 1] =
                   Content("user", FunctionResponse(dispatched[k].name)))
    /\ [][/\ Len(contents') >= Len(contents)
          /\ SubSeq(contents', 1, Len(contents)) = contents
          /\ qpc = "call_tool" => Len(contents') - Len(contents) \in {0, 2}
          /\ qpc = "while" => contents' = contents]_vars

\* The third completion was requested with five turns, after a completion
\* that held two function calls.
C20_Witness ==
    /\ Len(requested) = 3
    /\ Len(contents) = 5
    /\ Len(dispatched) = 2
    /\ \E k \in 1..2 :
          responses[k] = <<FunctionCall("search_drive_files"),
                           FunctionCall("check_authentication_status")>>

\* The handler in slot r has matched its state and not yet answered.
InCallback(r) == req[r].kind = "oauth2callback" /\ req[r].pc \in {"fetch_token", "userinfo"}

\* C21: of the callbacks that carry one pending state at most one passes the
\* state check, whatever the order the event loop runs them in.  The one
\* that passes takes the state out of the tracker in the same step, no other
\* handler holds that state or has matched it before, and a callback that
\* arrives with a state already matched is answered InvalidState at once,
\* with no exchange and no write.
C21_OneCallbackPerToken ==
    /\ [](\A r1, r2 \in Reqs :
             (r1 # r2 /\ InCallback(r1) /\ InCallback(r2))
                => req[r1].state # req[r2].state)
    /\ [](\A r \in Reqs : InCallback(r) => req[r].state \notin DOMAIN oauth_states)
    /\ [][\A r \in Reqs :
             (req[r].pc = "idle" /\ req'[r].pc = "fetch_token") =>
                /\ req'[r].state \in DOMAIN oauth_states
                /\ req'[r].state \notin DOMAIN oauth_states'
                /\ req'[r].state \notin consumed
                /\ \A r2 \in Reqs \ {r} : req[r2].state # req'[r].state]_vars
    /\ [][(response' # response /\ response'.kind = "oauth2callback"
             /\ response'.state \in consumed /\ req' = req) =>
                /\ response'.exc = "InvalidState"
                /\ response'.net = 0
                /\ UNCHANGED server]_vars

\* Two callbacks carried the one state that was issued: the first stored
\* the credentials of the flow's client, the second was rejected.
C21_Witness ==
    /\ response.kind = "oauth2callback"
    /\ response.exc = "InvalidState"
    /\ consumed = {response.state}
    /\ completed = {response.state}
    /\ DOMAIN credentials_store = {issued[response.state]}
    /\ oauth_states = Empty

\* A callback matched s and failed: s is consumed, not completed, and no
\* handler holds it any more.
FailedFlow(s) ==
    /\ s \in consumed \ completed
    /\ \A r \in Reqs : ~(InCallback(r) /\ req[r].state = s)

\* C22: a state leaves the tracker in the step in which a callback matches
\* it, before the exchange, and never comes back: a callback whose exchange
\* or identity lookup fails leaves it consumed, the flow is never completed
\* afterwards, and a client gets a record only through a flow that had not
\* failed.  A state leaves the tracker in no other step than the one in
\* which a callback presenting it passes the check.
C22_TokenConsumedAtMatch ==
    /\ [](\A s \in consumed : s \notin DOMAIN oauth_states)
    /\ []((response.kind = "oauth2callback"
             /\ response.exc \in {"UpstreamAuthError", "MissingIdentity"})
            => /\ response.state \notin DOMAIN oauth_states
               /\ response.state \notin completed)
    /\ [][\A s \in consumed : FailedFlow(s) => (s \notin completed' /\ FailedFlow(s)')]_vars
    /\ [][\A c \in ClientIds :
             (c \notin DOMAIN credentials_store /\ c \in DOMAIN credentials_store')
                => \E s \in completed' \ completed : issued[s] = c /\ ~FailedFlow(s)]_vars
    /\ [][\A s \in DOMAIN oauth_states :
             s \notin DOMAIN oauth_states'
                => \E r \in Reqs : /\ req[r].pc = "idle"
                                   /\ req'[r].kind = "oauth2callback"
                                   /\ req'[r].pc = "fetch_token"
                                   /\ req'[r].state = s]_vars

\* The callback of the only flow of a client failed at the identity lookup,
\* a retry with the same state was rejected, and the client has no record.
C22_Witness ==
    /\ response.kind = "oauth2callback"
    /\ response.exc = "InvalidState"
    /\ FailedFlow(response.state)
    /\ consumed = {response.state}
    /\ issued[response.state] \notin DOMAIN credentials_store
    /\ nextToken > 1

\* C23: no step removes a client from the credential store, so a status
\* check that answered "authenticated" stays true, and every status check for
\* a client that holds a record answers "authenticated", a failed refresh
\* in between or not.  The store changes only in the step of a callback that
\* succeeds, which puts the record under the client of its flow, and in the
\* step of a refresh that succeeds, which replaces the access token of the
\* calling client's record.
C23_AuthenticationIsMonotonic ==
    /\ []((response.kind = "check_authentication_status"
             /\ response.result = Authenticated)
            => response.client \in DOMAIN credentials_store)
    /\ [][DOMAIN credentials_store \subseteq DOMAIN credentials_store']_vars
    /\ [][(response'.kind = "check_authentication_status" /\ response' # response
             /\ response'.client \in DOMAIN credentials_store)
            => response'.result = Authenticated]_vars
    /\ [][credentials_store' # credentials_store =>
             \E r \in Reqs :
                \/ /\ req[r].pc = "userinfo"
                   /\ response'.kind = "oauth2callback"
                   /\ response'.result.status = 200
                   /\ response'.state = req[r].state
                   /\ credentials_store' = Put(credentials_store, issued[req[r].state],
                                               req[r].creds_data)
                \/ /\ req[r].pc = "refresh"
                   /\ req'[r].pc = "list"
                   /\ req[r].client \in DOMAIN credentials_store
                   /\ credentials_store' =
                         [credentials_store EXCEPT ![req[r].client].token =
                             credentials_store'[req[r].client].token]]_vars

\* The status check answered "authenticated" for a client after a search of
\* that client had entered the refresh branch, where it failed.
C23_Witness ==
    /\ response.kind = "check_authentication_status"
    /\ response.result = Authenticated
    /\ response.client \in DOMAIN credentials_store
    /\ credentials_store[response.client].refresh_token # NoRefresh
    /\ entered[credentials_store[response.client].token] >= 1
    /\ refreshed[credentials_store[response.client].token] = 0

====
